---- MODULE Spec2Model ----
(***************************************************************************)
(* Washtag laundry point-of-sale backend: the Entity Store tables          *)
(* (categories, clients, prices, orders), the price CRUD endpoints, the    *)
(* Price Resolver (get_price_for_order), the Client Reconciler             *)
(* (find_or_create_client) and the Order Composer                          *)
(* (create_integrated_order).                                              *)
(*                                                                         *)
(* Conventions.                                                            *)
(*  - A text value (a price type, a type_name) is a sequence of one-letter *)
(*    strings, so that str.lower(), == and SQL ILIKE '%..%' are computed.  *)
(*  - A weight is an integer number of half kilograms; the weights stored  *)
(*    in a Price row are whole kilograms (even numbers), which makes the   *)
(*    midpoint (weight_min + weight_max) / 2 of the routers exact.         *)
(*  - None is Python's None / SQL NULL for a numeric field.                *)
(*  - A partial-update payload is a function whose DOMAIN is the set of    *)
(*    fields the caller sent (pydantic's exclude_unset).                   *)
(***************************************************************************)
EXTENDS Integers, Sequences, FiniteSets, TLC

VARIABLES
    categories,   \* table "categories": set of [id, name]
    clients,      \* table "clients": set of [id, name, contact_number, address]
    prices,       \* table "prices": set of [id, type, weight_min, weight_max, amount, category_id]
    orders,       \* table "orders": set of [id, client_id, category_id, status, total_amount, notes]
    nextId,       \* the store's autoincrement counters, one per table
    request,      \* the last call received, where a specification records it
    response,     \* what the last call answered
    previous,     \* what preceded the last call, where a specification
                  \* records it: the call before it, the Client table it
                  \* found and the Client table that earlier call found
    invocations   \* the POST /orders/integrated requests in progress, where a
                  \* specification runs them step by step: per invocation
                  \* its step and the locals of create_integrated_order

vars == <<categories, clients, prices, orders, nextId, request, response,
          previous, invocations>>
tables == <<categories, clients, prices, orders, nextId>>

None == -1

-----------------------------------------------------------------------------
(* Bounds of the model *)

MaxCategoryId == 2  \* category rows the store hands ids to
MaxPriceId == 2     \* price rows the store hands ids to
MaxClientId == 2    \* client rows the store hands ids to
MaxOrderId == 1     \* order rows the store hands ids to
ResolverRows == 2   \* rows of the price tables the resolver is called against

-----------------------------------------------------------------------------
(* Text *)

LowerChar(c) ==
    CASE c = "C" -> "c"
      [] c = "R" -> "r"
      [] c = "U" -> "u"
      [] OTHER -> c

\* str.lower()
Lower(s) == [i \in DOMAIN s |-> LowerChar(s[i])]

Contains(s, sub) ==
    \E i \in 0..(Len(s) - Len(sub)) : SubSeq(s, i + 1, i + Len(sub)) = sub

\* SQL LIKE: in the pattern '%' stands for any run of characters and '_' for
\* any one character
RECURSIVE Like(_, _)
Like(s, pattern) ==
    IF pattern = <<>> THEN s = <<>>
    ELSE IF Head(pattern) = "%"
    THEN Like(s, Tail(pattern)) \/ (s # <<>> /\ Like(Tail(s), pattern))
    ELSE /\ s # <<>>
         /\ Head(pattern) = "_" \/ Head(pattern) = Head(s)
         /\ Like(Tail(s), Tail(pattern))

\* column.ilike(f"%{sub}%"): sub goes into the pattern as it is
ILikeContains(s, sub) == Like(Lower(s), <<"%">> \o Lower(sub) \o <<"%">>)

custom == <<"c", "u", "s", "t", "o", "m">>

\* type.lower() == 'custom'
IsCustomType(t) == Lower(t) = custom

\* Price.type.ilike('%custom%')
TypeILikeCustom(t) == ILikeContains(t, custom)

-----------------------------------------------------------------------------
(* Weights: half kilograms *)

Kg(n) == 2 * n

-----------------------------------------------------------------------------
(* Store queries *)

NoRow == [id |-> None]

\* Query.first(): the first row of the result in the store's scan order
\* (ascending primary key), or nothing.
First(rows) ==
    IF rows = {} THEN NoRow
    ELSE CHOOSE r \in rows : \A q \in rows : r.id <= q.id

get_category(category_id) ==
    First({c \in categories : c.id = category_id})

get_price(price_id) ==
    First({p \in prices : p.id = price_id})

\* A search that did not look at weight_min at all
CoversFrom_nomin(p, weight) ==
    TRUE

\* or_(Price.type.ilike('%custom%'), Price.weight_min <= weight); a NULL
\* weight_min makes the comparison NULL, which filters the row out.
CoversFrom(p, weight) ==
    \/ TypeILikeCustom(p.type)
    \/ (p.weight_min # None /\ p.weight_min <= weight)

get_price_by_type_and_weight(category_id, type_name, weight) ==
    First({p \in prices :
             /\ p.category_id = category_id
             /\ p.type = type_name
             /\ p.weight_max >= weight
             /\ CoversFrom(p, weight)})

NoText == <<>>

get_price_by_weight_range(category_id, weight, type_filter) ==
    First({p \in prices :
             /\ p.category_id = category_id
             /\ p.weight_max >= weight
             /\ CoversFrom(p, weight)
             /\ (type_filter # NoText => ILikeContains(p.type, type_filter))})

-----------------------------------------------------------------------------
(* Price Resolver *)

Returned(price, amount) ==
    [raised |-> "", price |-> price, amount |-> amount]

ValueError(detail) ==
    [raised |-> "ValueError", detail |-> detail]

\* A resolver that compared type_name with 'custom' without lower-casing it
get_price_for_order_uncased(category_id, type_name, weight, custom_amount) ==
    IF type_name = custom
    THEN IF custom_amount = None
         THEN ValueError(<<"custom_amount is required for custom type">>)
         ELSE Returned(NoRow, custom_amount)
    ELSE LET exact == get_price_by_type_and_weight(category_id, type_name, weight)
             price == IF exact = NoRow
                      THEN get_price_by_weight_range(category_id, weight, type_name)
                      ELSE exact
         IN  IF price = NoRow
             THEN ValueError(<<"No price found for type", type_name, "with weight",
                               weight, "in category", category_id>>)
             ELSE Returned(price, price.amount)

get_price_for_order(category_id, type_name, weight, custom_amount) ==
    IF IsCustomType(type_name)
    THEN IF custom_amount = None
         THEN ValueError(<<"custom_amount is required for custom type">>)
         ELSE Returned(NoRow, custom_amount)
    ELSE LET exact == get_price_by_type_and_weight(category_id, type_name, weight)
             price == IF exact = NoRow
                      THEN get_price_by_weight_range(category_id, weight, type_name)
                      ELSE exact
         IN  IF price = NoRow
             THEN ValueError(<<"No price found for type", type_name, "with weight",
                               weight, "in category", category_id>>)
             ELSE Returned(price, price.amount)

-----------------------------------------------------------------------------
(* HTTP answers *)

\* raise HTTPException(status_code, detail): nothing was written
HTTPException(op, status_code, detail) ==
    /\ response' = [op |-> op, status |-> status_code, detail |-> detail]
    /\ UNCHANGED tables

\* the request body fails pydantic validation: FastAPI answers 422 with the
\* offending fields and inputs
RequestValidationError(op, errors) ==
    /\ response' = [op |-> op, status |-> 422, errors |-> errors]
    /\ UNCHANGED tables

\* an exception no handler catches: the server answers 500
InternalServerError(op, exception) ==
    HTTPException(op, 500, <<exception>>)

-----------------------------------------------------------------------------
(* Prices: schemas, crud and router *)

\* One validation error: the field and the input refused
Invalid(cond, field, input) == IF cond THEN {<<"body", field, input>>} ELSE {}

\* A PriceBase whose weight_min were Field(None, ge=0)
PriceBaseErrors_min_ge_0(p) ==
    LET min_ok == p.weight_min = None \/ p.weight_min >= 0 IN
    Invalid(Len(p.type) < 1, "type", p.type)
    \cup Invalid(~min_ok, "weight_min", p.weight_min)
    \cup Invalid(\/ p.weight_max <= 0
                 \/ (min_ok /\ p.weight_min # None /\ p.weight_max <= p.weight_min),
                 "weight_max", p.weight_max)
    \cup Invalid(p.amount <= 0, "amount", p.amount)

\* schemas.price.PriceBase: Field(gt=0) on the weights and the amount, and
\* the weight_max validator, which compares with a weight_min that passed.
\* The weight_min validator is not run for a weight_min that is not sent, so
\* it rejects nothing here.
PriceBaseErrors(p) ==
    LET min_ok == p.weight_min = None \/ p.weight_min > 0 IN
    Invalid(Len(p.type) < 1, "type", p.type)
    \cup Invalid(~min_ok, "weight_min", p.weight_min)
    \cup Invalid(\/ p.weight_max <= 0
                 \/ (min_ok /\ p.weight_min # None /\ p.weight_max <= p.weight_min),
                 "weight_max", p.weight_max)
    \cup Invalid(p.amount <= 0, "amount", p.amount)

\* crud.price.create_price
crud_create_price(op, price) ==
    LET db_price == [id |-> nextId.prices, type |-> price.type,
                     weight_min |-> price.weight_min,
                     weight_max |-> price.weight_max, amount |-> price.amount,
                     category_id |-> price.category_id]
    IN  /\ nextId.prices <= MaxPriceId
        /\ prices' = prices \cup {db_price}
        /\ nextId' = [nextId EXCEPT !.prices = @ + 1]
        /\ response' = [op |-> op, status |-> 200, body |-> db_price]
        /\ UNCHANGED <<categories, clients, orders>>

\* db.query(Price).filter(category_id == .., type.ilike('%custom%'),
\*                        id != exclude_id).first()
existing_custom(category_id, exclude_id) ==
    First({p \in prices : /\ p.category_id = category_id
                          /\ TypeILikeCustom(p.type)
                          /\ p.id # exclude_id})

\* (weight_min + weight_max) / 2
Midpoint(weight_min, weight_max) == (weight_min + weight_max) \div 2

\* A POST /prices that compared price.type with 'custom' without lower-casing
create_price_case_sensitive(price) ==
    LET op == "create_price" IN
    IF PriceBaseErrors(price) # {} THEN RequestValidationError(op, PriceBaseErrors(price))
    ELSE IF get_category(price.category_id) = NoRow
    THEN HTTPException(op, 404, <<"Category not found">>)
    ELSE IF price.type = custom
    THEN IF First({p \in prices : p.category_id = price.category_id
                                  /\ p.type = custom}) # NoRow
         THEN HTTPException(op, 400,
                  <<"Custom price already exists for this category">>)
         ELSE crud_create_price(op, price)
    ELSE IF price.weight_min = None
    THEN InternalServerError(op, "TypeError")
    ELSE IF get_price_by_type_and_weight(
                price.category_id, price.type,
                Midpoint(price.weight_min, price.weight_max)) # NoRow
    THEN HTTPException(op, 400,
             <<"Price already exists for type", price.type,
               "in this weight range for the selected category">>)
    ELSE crud_create_price(op, price)

\* POST /prices
create_price(price) ==
    LET op == "create_price" IN
    IF PriceBaseErrors(price) # {} THEN RequestValidationError(op, PriceBaseErrors(price))
    ELSE IF get_category(price.category_id) = NoRow
    THEN HTTPException(op, 404, <<"Category not found">>)
    ELSE IF IsCustomType(price.type)
    THEN IF existing_custom(price.category_id, None) # NoRow
         THEN HTTPException(op, 400,
                  <<"Custom price already exists for this category">>)
         ELSE crud_create_price(op, price)
    \* None + float raises TypeError
    ELSE IF price.weight_min = None
    THEN InternalServerError(op, "TypeError")
    ELSE IF get_price_by_type_and_weight(
                price.category_id, price.type,
                Midpoint(price.weight_min, price.weight_max)) # NoRow
    THEN HTTPException(op, 400,
             <<"Price already exists for type", price.type,
               "in this weight range for the selected category">>)
    ELSE crud_create_price(op, price)

PriceFields == {"type", "weight_min", "weight_max", "amount", "category_id"}

Sent(payload, field) == field \in DOMAIN payload

\* price.<field> of a PriceUpdate: None when the field was not sent
Field(payload, field) ==
    IF Sent(payload, field) THEN payload[field] ELSE None

\* schemas.price.PriceUpdate
PriceUpdateErrors(u) ==
    LET min_ok ==
            /\ Field(u, "weight_min") # None => u.weight_min > 0
            \* weight_min_required_for_non_custom runs when weight_min was sent
            /\ (Sent(u, "weight_min") /\ u.weight_min = None) =>
                   ~(Sent(u, "type") /\ ~IsCustomType(u.type))
    IN
    Invalid(Sent(u, "type") /\ Len(Field(u, "type")) < 1, "type", Field(u, "type"))
    \cup Invalid(~min_ok, "weight_min", Field(u, "weight_min"))
    \* weight_max_must_be_greater_than_min compares the values sent
    \cup Invalid(/\ Field(u, "weight_max") # None
                 /\ \/ u.weight_max <= 0
                    \/ (/\ min_ok
                        /\ Field(u, "weight_min") # None
                        /\ u.weight_max <= u.weight_min),
                 "weight_max", Field(u, "weight_max"))
    \cup Invalid(Field(u, "amount") # None /\ u.amount <= 0,
                 "amount", Field(u, "amount"))

\* schemas.price.PriceResponse, the response_model of POST and PUT /prices,
\* built from the stored row: the PriceBase constraints, and the weight_min
\* validator, which runs on the row's weight_min
PriceResponseErrors(db_price) ==
    PriceBaseErrors(db_price)
    \cup Invalid(~IsCustomType(db_price.type) /\ db_price.weight_min = None,
                 "weight_min", db_price.weight_min)

\* crud.price.update_price: setattr for every field sent, then commit
crud_update_price(op, db_price, payload) ==
    LET updated == [f \in DOMAIN db_price |->
                       IF Sent(payload, f) THEN payload[f] ELSE db_price[f]]
    IN  \* weight_max, amount and category_id are nullable=False: the commit
        \* of a NULL raises IntegrityError
        IF \E f \in {"weight_max", "amount", "category_id"} : updated[f] = None
        THEN InternalServerError(op, "IntegrityError")
        ELSE /\ prices' = (prices \ {db_price}) \cup {updated}
             \* the row is committed before the response is validated
             /\ response' =
                    IF PriceResponseErrors(updated) # {}
                    THEN [op |-> op, status |-> 500,
                          detail |-> <<"ResponseValidationError">>]
                    ELSE [op |-> op, status |-> 200, body |-> updated]
             /\ UNCHANGED <<categories, clients, orders, nextId>>

\* PUT /prices/{price_id}
update_price(price_id, price) ==
    LET op == "update_price"
        existing_price == get_price(price_id)
        sent_category == Field(price, "category_id")
        type_name == IF Sent(price, "type") THEN price.type
                     ELSE existing_price.type
        weight_min == IF Field(price, "weight_min") # None
                      THEN price.weight_min ELSE existing_price.weight_min
        weight_max == IF Field(price, "weight_max") # None
                      THEN price.weight_max ELSE existing_price.weight_max
        category_id == IF sent_category # None THEN sent_category
                       ELSE existing_price.category_id
        overlapping_price ==
            get_price_by_type_and_weight(category_id, type_name,
                                         Midpoint(weight_min, weight_max))
    IN
    IF PriceUpdateErrors(price) # {} THEN RequestValidationError(op, PriceUpdateErrors(price))
    ELSE IF existing_price = NoRow
    THEN HTTPException(op, 404, <<"Price not found">>)
    ELSE IF sent_category # None /\ get_category(sent_category) = NoRow
    THEN HTTPException(op, 404, <<"Category not found">>)
    ELSE IF \/ Sent(price, "type")
            \/ Field(price, "weight_min") # None
            \/ Field(price, "weight_max") # None
    THEN IF IsCustomType(type_name)
         THEN IF existing_custom(category_id, price_id) # NoRow
              THEN HTTPException(op, 400,
                       <<"Custom price already exists for this category">>)
              ELSE crud_update_price(op, existing_price, price)
         ELSE IF weight_min = None
         THEN InternalServerError(op, "TypeError")
         ELSE IF overlapping_price # NoRow /\ overlapping_price.id # price_id
         THEN HTTPException(op, 400,
                  <<"Price already exists for type", type_name,
                    "in this weight range for the selected category">>)
         ELSE crud_update_price(op, existing_price, price)
    ELSE crud_update_price(op, existing_price, price)

\* DELETE /prices/{price_id}
delete_price(price_id) ==
    LET op == "delete_price"
        db_price == get_price(price_id)
    IN  IF db_price = NoRow
        THEN HTTPException(op, 404, <<"Price not found">>)
        ELSE /\ prices' = prices \ {db_price}
             /\ response' = [op |-> op, status |-> 200,
                             body |-> <<"Price deleted successfully">>]
             /\ UNCHANGED <<categories, clients, orders, nextId>>

-----------------------------------------------------------------------------
(* Categories *)

\* crud.category.get_category_by_name
get_category_by_name(name) ==
    First({c \in categories : c.name = name})

\* A POST /categories that did not look for the name
create_category_unchecked(category) ==
    LET op == "create_category"
        db_category == [id |-> nextId.categories, name |-> category.name]
    IN  /\ nextId.categories <= MaxCategoryId
        /\ categories' = categories \cup {db_category}
        /\ nextId' = [nextId EXCEPT !.categories = @ + 1]
        /\ response' = [op |-> op, status |-> 201, body |-> db_category]
        /\ UNCHANGED <<clients, prices, orders>>

\* POST /categories
create_category(category) ==
    LET op == "create_category"
        db_category == [id |-> nextId.categories, name |-> category.name]
    IN  IF get_category_by_name(category.name) # NoRow
        THEN HTTPException(op, 400, <<"Category name already exists">>)
        ELSE /\ nextId.categories <= MaxCategoryId
             /\ categories' = categories \cup {db_category}
             /\ nextId' = [nextId EXCEPT !.categories = @ + 1]
             /\ response' = [op |-> op, status |-> 201, body |-> db_category]
             /\ UNCHANGED <<clients, prices, orders>>

-----------------------------------------------------------------------------
(* Clients and the Client Reconciler *)

\* crud.client.create_client: the row that is inserted
new_client(name, contact_number, address) ==
    [id |-> nextId.clients, name |-> name, contact_number |-> contact_number,
     address |-> address]

\* POST /clients
create_client(client) ==
    LET db_client == new_client(client.name, client.contact_number, client.address)
    IN  /\ nextId.clients <= MaxClientId
        /\ clients' = clients \cup {db_client}
        /\ nextId' = [nextId EXCEPT !.clients = @ + 1]
        /\ response' = [op |-> "create_client", status |-> 201, body |-> db_client]
        /\ UNCHANGED <<categories, prices, orders>>

\* A reconciler that did not look for an existing client
find_or_create_client_always_create(client_name, client_contact, client_address) ==
    [client |-> new_client(client_name, client_contact, client_address),
     created |-> TRUE]

\* A reconciler that returned the found client under the requested name and
\* address
find_or_create_client_update_on_match(client_name, client_contact, client_address) ==
    LET existing_client == First({c \in clients : c.contact_number = client_contact})
    IN  IF existing_client # NoRow
        THEN [client |-> [existing_client EXCEPT !.name = client_name,
                                                 !.address = client_address],
              created |-> FALSE]
        ELSE [client |-> new_client(client_name, client_contact, client_address),
              created |-> TRUE]

\* crud.order.find_or_create_client: the client it returns, and whether it
\* had to insert it
find_or_create_client(client_name, client_contact, client_address) ==
    LET existing_client == First({c \in clients : c.contact_number = client_contact})
    IN  IF existing_client # NoRow
        THEN [client |-> existing_client, created |-> FALSE]
        ELSE [client |-> new_client(client_name, client_contact, client_address),
              created |-> TRUE]

\* The effect of find_or_create_client on the store (create_client commits)
Reconciled(found) ==
    IF found.created
    THEN /\ nextId.clients <= MaxClientId
         /\ clients' = clients \cup {found.client}
    ELSE UNCHANGED clients

-----------------------------------------------------------------------------
(* Order Composer *)

\* a text field the request body does not carry
NotSent == ""

\* schemas.order.IntegratedOrderCreate: the parsed body, status defaulting to
\* OrderStatus.PENDING and notes to None
IntegratedOrderCreate(body) ==
    [body EXCEPT !.status = IF @ = NotSent THEN "pending" ELSE @]

\* schemas.order.IntegratedOrderCreate; validate_custom_amount runs when
\* custom_amount was sent
IntegratedOrderCreateErrors(o) ==
    Invalid(o.weight <= 0, "weight", o.weight)
    \cup Invalid(/\ o.custom_amount # None
                 /\ (o.custom_amount <= 0 \/ ~IsCustomType(o.type_name)),
                 "custom_amount", o.custom_amount)

\* A create_order that left status to the column default of models.order
new_order_column_default(client_id, category_id, status, total_amount, notes) ==
    [id |-> nextId.orders, client_id |-> client_id, category_id |-> category_id,
     status |-> "unpaid", total_amount |-> total_amount, notes |-> notes]

\* crud.order.create_order: the row that is inserted
new_order(client_id, category_id, status, total_amount, notes) ==
    [id |-> nextId.orders, client_id |-> client_id, category_id |-> category_id,
     status |-> status, total_amount |-> total_amount, notes |-> notes]

IntegratedOrderResponse(order, client, category, order_data, price_obj) ==
    [order_id |-> order.id, status |-> order.status,
     total_amount |-> order.total_amount, notes |-> order.notes,
     client_id |-> client.id, client_name |-> client.name,
     client_contact |-> client.contact_number, client_address |-> client.address,
     category_id |-> category.id, category_name |-> category.name,
     type_name |-> order_data.type_name, weight |-> order_data.weight,
     price_id |-> price_obj.id]

\* A composer that undid the client insert when price resolution failed
compose_order_rollback(op, category, order_data) ==
    LET found == find_or_create_client(order_data.client_name,
                                       order_data.client_contact,
                                       order_data.client_address)
        resolved == get_price_for_order(order_data.category_id,
                                        order_data.type_name, order_data.weight,
                                        order_data.custom_amount)
        order == new_order(found.client.id, order_data.category_id,
                           order_data.status, resolved.amount, order_data.notes)
    IN  IF resolved.raised = "ValueError"
        THEN HTTPException(op, 400, resolved.detail)
        ELSE /\ Reconciled(found)
             /\ nextId.orders <= MaxOrderId
             /\ nextId' = [nextId EXCEPT
                              !.clients = IF found.created THEN @ + 1 ELSE @,
                              !.orders = @ + 1]
             /\ UNCHANGED <<categories, prices>>
             /\ orders' = orders \cup {order}
             /\ response' =
                    [op |-> op, status |-> 201,
                     body |-> IntegratedOrderResponse(
                                  order, found.client, category, order_data,
                                  resolved.price)]

\* the steps after the category check: reconcile the client, resolve the
\* price, persist the order, answer
compose_order(op, category, order_data) ==
    LET found == find_or_create_client(order_data.client_name,
                                       order_data.client_contact,
                                       order_data.client_address)
        resolved == get_price_for_order(order_data.category_id,
                                        order_data.type_name, order_data.weight,
                                        order_data.custom_amount)
        order == new_order(found.client.id, order_data.category_id,
                           order_data.status, resolved.amount, order_data.notes)
    IN  /\ Reconciled(found)
        /\ nextId' = [nextId EXCEPT
                         !.clients = IF found.created THEN @ + 1 ELSE @,
                         !.orders = IF resolved.raised = "" THEN @ + 1 ELSE @]
        /\ UNCHANGED <<categories, prices>>
        /\ IF resolved.raised = "ValueError"
           THEN \* except ValueError as e: HTTPException(400, str(e))
                /\ response' = [op |-> op, status |-> 400,
                                detail |-> resolved.detail]
                /\ UNCHANGED orders
           ELSE /\ nextId.orders <= MaxOrderId
                /\ orders' = orders \cup {order}
                /\ response' =
                       [op |-> op, status |-> 201,
                        body |-> IntegratedOrderResponse(
                                     order, found.client, category, order_data,
                                     resolved.price)]

\* A composer that reconciled the client before it checked the category
create_integrated_order_client_first(order_data) ==
    LET op == "create_integrated_order"
        category == get_category(order_data.category_id)
        found == find_or_create_client(order_data.client_name,
                                       order_data.client_contact,
                                       order_data.client_address)
    IN  IF IntegratedOrderCreateErrors(order_data) # {}
        THEN RequestValidationError(op, IntegratedOrderCreateErrors(order_data))
        ELSE IF category = NoRow
        THEN /\ Reconciled(found)
             /\ nextId' = [nextId EXCEPT
                              !.clients = IF found.created THEN @ + 1 ELSE @]
             /\ response' = [op |-> op, status |-> 400,
                             detail |-> <<"Category with ID",
                                          order_data.category_id, "not found">>]
             /\ UNCHANGED <<categories, prices, orders>>
        ELSE compose_order(op, category, IntegratedOrderCreate(order_data))

\* POST /orders/integrated: routers.order.create_integrated_order around
\* crud.order.create_integrated_order
create_integrated_order(order_data) ==
    LET op == "create_integrated_order"
        category == get_category(order_data.category_id)
    IN  IF IntegratedOrderCreateErrors(order_data) # {}
        THEN RequestValidationError(op, IntegratedOrderCreateErrors(order_data))
        ELSE IF category = NoRow
        THEN HTTPException(op, 400, <<"Category with ID",
                                      order_data.category_id, "not found">>)
        ELSE compose_order(op, category, IntegratedOrderCreate(order_data))

-----------------------------------------------------------------------------
(* The Price Resolver on its own: get_price_for_order called against price *)
(* tables of up to ResolverRows rows.                                      *)

Reg == <<"R", "e", "g">>
reg == <<"r", "e", "g">>
regx == <<"r", "e", "g", "x">>
Custom == <<"C", "u", "s", "t", "o", "m">>
customx == <<"c", "u", "s", "t", "o", "m", "x">>

NoResponse == [op |-> "none"]
NoRequest == [op |-> "none"]
NoPrevious == [request |-> NoRequest, clients |-> {}, earlier |-> {}]

\* the requests that are served at the same time
Invocations == {1, 2}
Idle == [step |-> "Idle"]
NoInvocations == [i \in Invocations |-> Idle]

TwoCategories == {[id |-> 1, name |-> "Wash&Fold"], [id |-> 2, name |-> "Dry Clean"]}

ResolverRowTypes == {Reg, regx, customx}
\* <<weight_min, weight_max>>; a NULL weight_min is what an update can leave
ResolverRowWeights == {<<Kg(5), Kg(10)>>, <<Kg(10), Kg(12)>>, <<None, Kg(10)>>}
ResolverRowShapes ==
    [type : ResolverRowTypes, w : ResolverRowWeights, category_id : {1, 2}]

PriceRow(id, shape) ==
    [id |-> id, type |-> shape.type, weight_min |-> shape.w[1],
     weight_max |-> shape.w[2], amount |-> 100 + id,
     category_id |-> shape.category_id]

Absent == [absent |-> TRUE]

ResolverPriceTables ==
    {{PriceRow(i, f[i]) : i \in {j \in 1..ResolverRows : f[j] # Absent}} :
        f \in [1..ResolverRows -> ResolverRowShapes \cup {Absent}]}

\* 'r_g': a type name with a character that is a wildcard in LIKE
r_g == <<"r", "_", "g">>

ResolverTypeNames == {custom, Custom, Reg, reg, customx, r_g}
ResolverWeights == {Kg(5) - 1, Kg(5), Kg(10), Kg(10) + 1, Kg(12), Kg(12) + 1}
ResolverRequests ==
    {r \in [category_id : {1, 2}, type_name : ResolverTypeNames,
            weight : ResolverWeights, custom_amount : {None, 50}] :
        r.custom_amount # None => IsCustomType(r.type_name)}

InitResolver ==
    /\ categories = TwoCategories
    /\ clients = {}
    /\ orders = {}
    /\ prices \in ResolverPriceTables
    /\ nextId = [categories |-> 3, clients |-> 1, prices |-> ResolverRows + 1,
                 orders |-> 1]
    /\ request = NoRequest
    /\ response = NoResponse
    /\ previous = NoPrevious
    /\ invocations = NoInvocations

\* A resolver that kept the amount of a custom order as a Price row of the
\* category
GetPriceForOrder_recording(r) ==
    LET result == get_price_for_order(r.category_id, r.type_name, r.weight,
                                      r.custom_amount)
    IN  /\ request' = [op |-> "get_price_for_order", args |-> r]
        /\ response' = [op |-> "get_price_for_order", result |-> result]
        /\ prices' =
               IF result.raised = "" /\ result.price = NoRow
               THEN prices \cup {[id |-> nextId.prices, type |-> r.type_name,
                                  weight_min |-> None, weight_max |-> r.weight,
                                  amount |-> result.amount,
                                  category_id |-> r.category_id]}
               ELSE prices
        /\ UNCHANGED <<categories, clients, orders, nextId>>

\* One call of crud.order.get_price_for_order
GetPriceForOrder(r) ==
    /\ request' = [op |-> "get_price_for_order", args |-> r]
    /\ response' = [op |-> "get_price_for_order",
                    result |-> get_price_for_order(r.category_id, r.type_name,
                                                   r.weight, r.custom_amount)]
    /\ UNCHANGED tables

\* the resolver is applied once to each table and request
NextResolver ==
    \E r \in ResolverRequests :
        /\ response = NoResponse
        /\ GetPriceForOrder(r)
        /\ UNCHANGED <<previous, invocations>>

SpecResolver == InitResolver /\ [][NextResolver]_vars

-----------------------------------------------------------------------------
(* Claims about the Price Resolver (SpecResolver) *)

Resolved == response.op = "get_price_for_order"

\* C4: get_price_for_order with a type_name equal to 'custom' in any letter
\* case raises 'custom_amount is required for custom type' when custom_amount
\* is absent and returns (no price record, custom_amount) when it is present,
\* whatever the category, the weight and the price rows.
C4_CustomTypeContract ==
    (Resolved /\ request.args.type_name \in {custom, Custom}) =>
        IF request.args.custom_amount = None
        THEN response.result =
                 ValueError(<<"custom_amount is required for custom type">>)
        ELSE response.result = Returned(NoRow, request.args.custom_amount)

\* C4 witness: 'Custom' with custom_amount 50 answered (None, 50) although a
\* row of the category covers the weight.
C4_Witness ==
    /\ Resolved
    /\ request.args.type_name = Custom
    /\ request.args.custom_amount = 50
    /\ response.result = Returned(NoRow, 50)
    /\ \E p \in prices :
          /\ p.category_id = request.args.category_id
          /\ p.weight_min # None
          /\ p.weight_min <= request.args.weight
          /\ request.args.weight <= p.weight_max

InRange(p, weight) ==
    p.weight_min # None /\ p.weight_min <= weight /\ weight <= p.weight_max

\* The rows the claim is about, for a given notion of a "custom" row.
RangeMatching(IsCustomRow(_)) ==
    (Resolved /\ ~IsCustomType(request.args.type_name)) =>
        LET a == request.args
            r == response.result
        IN  \* a returned row that has both bounds and is not custom covers the
            \* weight, ends included
            /\ (/\ r.raised = ""
                /\ r.price.weight_min # None
                /\ ~IsCustomRow(r.price.type)) =>
                   (r.price \in prices /\ InRange(r.price, a.weight))
            \* a row of the requested type and category that covers the weight
            \* is enough for the resolver to answer with a price
            /\ (\E p \in prices : /\ p.category_id = a.category_id
                                  /\ p.type = a.type_name
                                  /\ InRange(p, a.weight)) => r.raised = ""
            \* a single row of the requested type and category is returned
            \* exactly for the weights in [weight_min, weight_max]
            /\ \A p \in prices :
                   (/\ prices = {p}
                    /\ p.category_id = a.category_id
                    /\ p.type = a.type_name
                    /\ p.weight_min # None
                    /\ ~IsCustomRow(p.type)) =>
                       ((r.raised = "" /\ r.price = p) <=> InRange(p, a.weight))

-----------------------------------------------------------------------------
(* The price endpoints on their own: POST, PUT and DELETE /prices against  *)
(* a store that holds two categories.                                      *)

\* <<weight_min, weight_max>> of the request bodies; the last one is invalid
PriceCreateWeights ==
    {<<None, Kg(3)>>, <<Kg(1), Kg(2)>>, <<Kg(2), Kg(3)>>, <<Kg(2), Kg(1)>>}

PriceCreates ==
    {[type |-> t, weight_min |-> w[1], weight_max |-> w[2], amount |-> 100,
      category_id |-> c] :
        t \in {custom, Custom, Reg}, w \in PriceCreateWeights, c \in {1, 2, 3}}

PriceUpdates ==
    {[category_id |-> c] : c \in {1, 2, 3}}
    \cup {[amount |-> 100]}
    \cup {[type |-> t] : t \in {custom, Custom, Reg}}
    \cup {[weight_min |-> Kg(1), weight_max |-> Kg(2)],
          [weight_min |-> Kg(2), weight_max |-> Kg(3)]}

PriceIds == 1..MaxPriceId

InitPrice ==
    /\ categories = TwoCategories
    /\ clients = {}
    /\ orders = {}
    /\ prices = {}
    /\ nextId = [categories |-> 3, clients |-> 1, prices |-> 1, orders |-> 1]
    /\ request = NoRequest
    /\ response = NoResponse
    /\ previous = NoPrevious
    /\ invocations = NoInvocations

CreatePrice == \E p \in PriceCreates : create_price(p) /\ UNCHANGED <<request, previous, invocations>>

UpdatePrice ==
    \E i \in PriceIds, u \in PriceUpdates :
        update_price(i, u) /\ UNCHANGED <<request, previous, invocations>>

DeletePrice == \E i \in PriceIds : delete_price(i) /\ UNCHANGED <<request, previous, invocations>>

NextPrice == CreatePrice \/ UpdatePrice \/ DeletePrice

SpecPrice == InitPrice /\ [][NextPrice]_vars

-----------------------------------------------------------------------------
(* Claims about the price endpoints (SpecPrice) *)

Overlap(p, q) ==
    /\ p.weight_min # None /\ q.weight_min # None
    /\ p.weight_min <= q.weight_max
    /\ q.weight_min <= p.weight_max

\* C8: after any sequence of price create, update and delete operations,
\* within each category no two Price rows of the same non-custom type have
\* overlapping weight ranges [weight_min, weight_max].
C8_NoOverlappingRanges ==
    \A p \in prices : \A q \in prices :
        (/\ p.id # q.id
         /\ p.category_id = q.category_id
         /\ p.type = q.type
         /\ ~IsCustomType(p.type)) => ~Overlap(p, q)

\* C9: after any sequence of price create, update and delete operations,
\* every category holds at most one Price row of type 'custom'
\* (case-insensitive).
C9_AtMostOneCustomPerCategory ==
    \A p \in prices : \A q \in prices :
        (/\ p.category_id = q.category_id
         /\ IsCustomType(p.type)
         /\ IsCustomType(q.type)) => p.id = q.id

HoldsCustom(category_id) ==
    \E q \in prices : q.category_id = category_id /\ IsCustomType(q.type)

\* The request bodies of type 'custom' in any letter case that pass the schema
CustomCreates ==
    {p \in PriceCreates :
        /\ p.type \in {custom, Custom}
        /\ p.weight_max > 0
        /\ (p.weight_min # None => 0 < p.weight_min /\ p.weight_min < p.weight_max)}

\* C10: creating a Price of type 'custom' (any letter case) in a category
\* that already holds a custom Price fails with status 400 and leaves the
\* Price table unchanged: a POST /prices that ends otherwise is not such a
\* create.
C10_DuplicateCustomRejected ==
    [][(/\ response'.op = "create_price"
        /\ ~(response'.status = 400 /\ prices' = prices)) =>
           \A p \in CustomCreates :
               HoldsCustom(p.category_id) => ~create_price(p)]_vars

\* C10 witness: a create was answered 400 'Custom price already exists for
\* this category' while the table holds a custom row.
C10_Witness ==
    /\ response.op = "create_price"
    /\ response.status = 400
    /\ response.detail = <<"Custom price already exists for this category">>
    /\ \E c \in {1, 2} : HoldsCustom(c)

-----------------------------------------------------------------------------
(* The system from an empty store: categories and prices are created, and  *)
(* integrated orders are taken.                                            *)

Regular == <<"R", "e", "g", "u", "l", "a", "r">>

CategoryCreates == {[name |-> "Wash&Fold"], [name |-> "Dry Clean"]}

\* {type: "Regular", weight_min: 0, weight_max: 5, amount: 100, category_id: 1}
\* and the same price from 1 kg
SystemPriceCreates ==
    {[type |-> Regular, weight_min |-> m, weight_max |-> Kg(5), amount |-> 100,
      category_id |-> 1] : m \in {0, Kg(1)}}

\* <<type_name, weight, custom_amount>>
OrderedServices ==
    {<<Regular, Kg(3), None>>, <<Regular, Kg(6), None>>,
     <<custom, Kg(3), 50>>, <<custom, Kg(3), None>>}

Contacts == {"09171234567", "09181234567"}

\* <<client_name, client_address>>
People == {<<"Jane", "123 St">>, <<"Joan", "45 Ave">>}

\* <<status, notes>>: Jane's requests carry neither, Joan's carry both
Sends(name) ==
    IF name = "Jane" THEN <<NotSent, NotSent>> ELSE <<"in_progress", "fragile">>

IntegratedOrderCreates ==
    {[client_name |-> n[1], client_contact |-> c, client_address |-> n[2],
      category_id |-> k, type_name |-> t[1], weight |-> t[2],
      custom_amount |-> t[3], status |-> Sends(n[1])[1],
      notes |-> Sends(n[1])[2]] :
        n \in People, c \in Contacts, k \in {1, 2}, t \in OrderedServices}

Init ==
    /\ categories = {}
    /\ clients = {}
    /\ prices = {}
    /\ orders = {}
    /\ nextId = [categories |-> 1, clients |-> 1, prices |-> 1, orders |-> 1]
    /\ request = NoRequest
    /\ response = NoResponse
    /\ previous = NoPrevious
    /\ invocations = NoInvocations

CreateCategory ==
    \E c \in CategoryCreates : create_category(c) /\ UNCHANGED <<request, previous, invocations>>

CreateSystemPrice ==
    \E p \in SystemPriceCreates : create_price(p) /\ UNCHANGED <<request, previous, invocations>>

CreateIntegratedOrder ==
    \E o \in IntegratedOrderCreates :
        create_integrated_order(o) /\ UNCHANGED <<request, previous, invocations>>

Next == CreateCategory \/ CreateSystemPrice \/ CreateIntegratedOrder

Spec == Init /\ [][Next]_vars

-----------------------------------------------------------------------------
(* Claims about the system from an empty store (Spec) *)

CategoryExists(category_id) == \E c \in categories : c.id = category_id

WashAndFold == [id |-> 1, name |-> "Wash&Fold"]

ScenarioOrder ==
    [client_name |-> "Jane", client_contact |-> "09171234567",
     client_address |-> "123 St", category_id |-> 1, type_name |-> Regular,
     weight |-> Kg(3), custom_amount |-> None, status |-> NotSent,
     notes |-> NotSent]

\* The store holds the category 'Wash&Fold' alone, no client and no order,
\* and the last call was POST /prices for the Regular price of 0..5 kg
\* (from_kg = 0) or of 1..5 kg (from_kg = 1), made on an empty Price table.
AfterScenarioPrice(from_kg) ==
    /\ categories = {WashAndFold}
    /\ clients = {}
    /\ orders = {}
    /\ response.op = "create_price"
    /\ \/ /\ response.status = 200
          /\ response.body.type = Regular
          /\ response.body.weight_min = Kg(from_kg)
          /\ prices = {response.body}
       \/ /\ response.status = 422
          /\ response.errors = {<<"body", "weight_min", Kg(from_kg)>>}
          /\ prices = {}

ScenarioEnds201 ==
    /\ response.status = 200
    /\ response'.status = 201
    /\ response'.body.total_amount = 100
    /\ response'.body.price_id = response.body.id
    /\ \E c \in clients' \ clients : c.contact_number = "09171234567"

\* C7 as stated: from an empty store, create category 'Wash&Fold', create
\* price {Regular, weight_min 0, weight_max 5, amount 100, category_id 1},
\* POST /orders/integrated for contact '09171234567', category 1, 'Regular',
\* weight 3: the price is accepted, the order is answered 201 with
\* total_amount 100 and the price's id, and a Client row is added.
C7_ScenarioFromZeroKg ==
    [][(AfterScenarioPrice(0) /\ create_integrated_order(ScenarioOrder)) =>
           ScenarioEnds201]_vars

\* C7 amended: the same sequence with weight_min 1 ends with 201,
\* total_amount 100, the created price's id and a new Client row for
\* '09171234567'; with weight_min 0 the price is refused with 422 (weight_min
\* must be greater than 0) and the order is answered 400 'No price found',
\* the new Client row being kept and no Order inserted.
C7_ScenarioFromOneKg ==
    [][/\ (AfterScenarioPrice(1) /\ create_integrated_order(ScenarioOrder)) =>
              ScenarioEnds201
       /\ (AfterScenarioPrice(0) /\ create_integrated_order(ScenarioOrder)) =>
              /\ response.status = 422
              /\ response'.status = 400
              /\ response'.detail =
                     <<"No price found for type", Regular, "with weight",
                       Kg(3), "in category", 1>>
              /\ orders' = {}
              /\ \E c \in clients' : c.contact_number = "09171234567"]_vars

\* C7 witness: the store after the three calls, the price being from 1 kg
C7_Witness ==
    /\ categories = {WashAndFold}
    /\ response.op = "create_integrated_order"
    /\ response.status = 201
    /\ response.body.total_amount = 100
    /\ \E p \in prices : /\ prices = {p}
                         /\ p.weight_min = Kg(1)
                         /\ response.body.price_id = p.id
    /\ clients = {[id |-> 1, name |-> "Jane", contact_number |-> "09171234567",
                   address |-> "123 St"]}
    /\ Cardinality(orders) = 1

-----------------------------------------------------------------------------
(* The Client Reconciler: find_or_create_client called on its own and      *)
(* through POST /orders/integrated, next to POST /clients, on a store that *)
(* holds two categories and one Regular price.                             *)

ClientCreates ==
    {[name |-> n[1], contact_number |-> c, address |-> n[2]] :
        n \in People, c \in Contacts}

RegularPrice ==
    [id |-> 1, type |-> Regular, weight_min |-> Kg(1), weight_max |-> Kg(5),
     amount |-> 100, category_id |-> 1]

InitClient ==
    /\ categories = TwoCategories
    /\ clients = {}
    /\ prices = {RegularPrice}
    /\ orders = {}
    /\ nextId = [categories |-> 3, clients |-> 1, prices |-> 2, orders |-> 1]
    /\ request = NoRequest
    /\ response = NoResponse
    /\ previous = NoPrevious
    /\ invocations = NoInvocations

\* the call is recorded with what it found
Recorded(op, args) ==
    /\ request' = [op |-> op, args |-> args]
    /\ previous' = [request |-> request, clients |-> clients,
                    earlier |-> previous.clients]
    /\ UNCHANGED invocations

\* One call of crud.order.find_or_create_client
FindOrCreateClient(client) ==
    LET found == find_or_create_client(client.name, client.contact_number,
                                       client.address)
    IN  /\ Reconciled(found)
        /\ nextId' = [nextId EXCEPT
                         !.clients = IF found.created THEN @ + 1 ELSE @]
        /\ response' = [op |-> "find_or_create_client", client |-> found.client]
        /\ Recorded("find_or_create_client", client)
        /\ UNCHANGED <<categories, prices, orders>>

CallFindOrCreateClient == \E c \in ClientCreates : FindOrCreateClient(c)

CreateClient ==
    \E c \in ClientCreates : create_client(c) /\ Recorded("create_client", c)

\* Regular orders for category 1: 3 kg is priced, 6 kg is not
ClientOrderCreates ==
    {o \in IntegratedOrderCreates :
        o.category_id = 1 /\ o.type_name = Regular}

CreateClientOrder ==
    \E o \in ClientOrderCreates :
        create_integrated_order(o) /\ Recorded("create_integrated_order", o)

NextClient == CallFindOrCreateClient \/ CreateClient \/ CreateClientOrder

SpecClient == InitClient /\ [][NextClient]_vars

-----------------------------------------------------------------------------
(* Claims about the Client Reconciler (SpecClient) *)

WithContact(rows, contact_number) ==
    {c \in rows : c.contact_number = contact_number}

\* C2: two calls of find_or_create_client in sequence with the same contact
\* number, nothing in between, the first made on a store with no client of
\* that contact number, return the same client id and add exactly one Client
\* row in total; and any call made when a client of that contact number
\* exists adds no row.
C2_FindOrCreateTwice ==
    [][request'.op = "find_or_create_client" =>
           LET contact_number == request'.args.contact_number
           IN  /\ WithContact(clients, contact_number) # {} =>
                      clients' = clients
               /\ (/\ request.op = "find_or_create_client"
                   /\ request.args.contact_number = contact_number
                   /\ WithContact(previous.clients, contact_number) = {}) =>
                      /\ response'.client.id = response.client.id
                      /\ previous.clients \subseteq clients'
                      /\ Cardinality(clients') =
                             Cardinality(previous.clients) + 1
                      /\ Cardinality(WithContact(clients', contact_number)) = 1
      ]_vars

\* C2 witness: the last two calls were find_or_create_client for the same
\* contact number under different names, the first found no client of that
\* contact number, and the store holds one since.
C2_Witness ==
    /\ previous.request.op = "find_or_create_client"
    /\ request.op = "find_or_create_client"
    /\ previous.request.args.contact_number = request.args.contact_number
    /\ previous.request.args.name # request.args.name
    /\ WithContact(previous.earlier, request.args.contact_number) = {}
    /\ WithContact(clients, request.args.contact_number) = {response.client}

\* C3: when a Client with the requested contact number exists,
\* find_or_create_client returns such a client and no Client row changes,
\* whatever name and address the request carries; the integrated-order
\* response then carries that stored client's id, name and address.
C3_FoundClientUnchanged ==
    [][/\ (/\ request'.op = "find_or_create_client"
           /\ WithContact(clients, request'.args.contact_number) # {}) =>
              /\ clients' = clients
              /\ response'.client \in
                     WithContact(clients, request'.args.contact_number)
       /\ (/\ request'.op = "create_integrated_order"
           /\ WithContact(clients, request'.args.client_contact) # {}) =>
              /\ clients' = clients
              /\ response'.status = 201 =>
                     \E c \in WithContact(clients, request'.args.client_contact) :
                         /\ response'.body.client_id = c.id
                         /\ response'.body.client_name = c.name
                         /\ response'.body.client_address = c.address
                         /\ response'.body.client_contact = c.contact_number
      ]_vars

\* C3 witness: an integrated order was answered 201 with a client name and
\* address other than the ones requested, the Client table being as the call
\* found it.
C3_Witness ==
    /\ request.op = "create_integrated_order"
    /\ response.status = 201
    /\ response.body.client_name # request.args.client_name
    /\ response.body.client_address # request.args.client_address
    /\ clients = previous.clients

-----------------------------------------------------------------------------
(* Further claims about the system from an empty store (Spec) *)

NamedCategories(name) == {c \in categories : c.name = name}

\* C11: creating a category whose name is the name of an existing category
\* fails with status 400 'Category name already exists' and leaves the
\* Category table unchanged; after any sequence of category creates no two
\* Category rows share a name.
C11_DuplicateCategoryNameRejected ==
    /\ [](\A c \in categories : NamedCategories(c.name) = {c})
    /\ [][\A c \in CategoryCreates :
             (NamedCategories(c.name) # {} /\ create_category(c)) =>
                 /\ response'.status = 400
                 /\ response'.detail = <<"Category name already exists">>
                 /\ categories' = categories]_vars

\* C11 witness: a create was answered 400 'Category name already exists'
\* and the table holds both categories
C11_Witness ==
    /\ response.op = "create_category"
    /\ response.status = 400
    /\ response.detail = <<"Category name already exists">>
    /\ Cardinality(categories) = 2

\* the resolver's outcome for an integrated-order request
Resolution(o) ==
    get_price_for_order(o.category_id, o.type_name, o.weight, o.custom_amount)

\* C12: when an integrated-order invocation creates a new Client and price
\* resolution then fails, the invocation fails (400 with the resolver's
\* message), the new Client row stays in the store and no Order references
\* it.
C12_OrphanClientKept ==
    [][\A o \in IntegratedOrderCreates :
          (/\ CategoryExists(o.category_id)
           /\ WithContact(clients, o.client_contact) = {}
           /\ Resolution(o).raised = "ValueError"
           /\ create_integrated_order(o)) =>
              /\ response'.status = 400
              /\ response'.detail = Resolution(o).detail
              /\ \E c \in clients' :
                    /\ c \notin clients
                    /\ clients' = clients \cup {c}
                    /\ c.contact_number = o.client_contact
                    /\ c.name = o.client_name
                    /\ \A r \in orders' : r.client_id # c.id
              /\ orders' = orders]_vars

\* C12 witness: an integrated order failed on price resolution, and the
\* store holds the one client ever created and no order
C12_Witness ==
    /\ response.op = "create_integrated_order"
    /\ response.status = 400
    /\ response.detail[1] = "No price found for type"
    /\ Cardinality(clients) = 1
    /\ nextId.clients = 2
    /\ orders = {}

-----------------------------------------------------------------------------
(* POST /orders/integrated step by step: each invocation of                *)
(* crud.order.create_integrated_order runs its statements one at a time,   *)
(* each query and each commit being one step on the store, while another   *)
(* invocation runs the same code in another worker thread with a session   *)
(* of its own. The store holds the category 'Wash&Fold' and one Regular    *)
(* price; every invocation slot serves one request.                        *)

\* Regular 3 kg (priced), Regular 6 kg (not priced), custom with an amount
\* and without
ConcurrentOrderCreates == IntegratedOrderCreates

NoResolution == [raised |-> "", price |-> NoRow, amount |-> None]

\* the locals of create_integrated_order when the request arrives
Received(order_data) ==
    [step |-> "Validating-Category", order_data |-> order_data,
     category |-> NoRow, client |-> NoRow, missed |-> FALSE,
     resolved |-> NoResolution, order |-> NoRow, response |-> NoResponse]

InitConcurrent ==
    /\ categories = {WashAndFold}
    /\ clients = {}
    /\ prices = {RegularPrice}
    /\ orders = {}
    /\ nextId = [categories |-> 2, clients |-> 1, prices |-> 2, orders |-> 1]
    /\ request = NoRequest
    /\ response = NoResponse
    /\ previous = NoPrevious
    /\ invocations = NoInvocations

\* the invocation goes on with new locals
Continue(i, locals) ==
    /\ invocations' = [invocations EXCEPT ![i] = locals]
    /\ UNCHANGED <<request, response, previous>>

\* the invocation ends and the router answers
Answer(i, locals, step, answer) ==
    /\ invocations' = [invocations EXCEPT
                          ![i] = [locals EXCEPT !.step = step,
                                                !.response = answer]]
    /\ response' = answer
    /\ UNCHANGED <<request, previous>>

\* A router that answered a ValueError with a 400 of its own wording
Fail_reworded(i, detail) ==
    Answer(i, invocations[i], "Failed",
           [op |-> "create_integrated_order", status |-> 400,
            detail |-> <<"Bad request">>])

\* raise ValueError(detail), which the router turns into a 400
Fail(i, detail) ==
    Answer(i, invocations[i], "Failed",
           [op |-> "create_integrated_order", status |-> 400, detail |-> detail])

\* the request body is validated and the endpoint is entered
Receive(i, order_data) ==
    /\ invocations[i].step = "Idle"
    /\ IF IntegratedOrderCreateErrors(order_data) # {}
       THEN Answer(i, Received(IntegratedOrderCreate(order_data)), "Failed",
                   [op |-> "create_integrated_order", status |-> 422,
                    errors |-> IntegratedOrderCreateErrors(order_data)])
       ELSE Continue(i, Received(IntegratedOrderCreate(order_data)))
    /\ UNCHANGED tables

\* category = category_crud.get_category(...); if not category: raise
ValidateCategory(i) ==
    LET locals == invocations[i]
        category == get_category(locals.order_data.category_id)
    IN  /\ locals.step = "Validating-Category"
        /\ IF category = NoRow
           THEN Fail(i, <<"Category with ID", locals.order_data.category_id,
                          "not found">>)
           ELSE Continue(i, [locals EXCEPT !.step = "Reconciling-Client",
                                           !.category = category])
        /\ UNCHANGED tables

\* A lookup that waited while another invocation was reconciling its client
LookupClient_waiting(i) ==
    LET locals == invocations[i]
        existing_client ==
            First({c \in clients :
                      c.contact_number = locals.order_data.client_contact})
    IN  /\ locals.step = "Reconciling-Client"
        /\ ~locals.missed
        /\ \A j \in Invocations \ {i} :
               invocations[j].step # "Reconciling-Client"
        /\ IF existing_client # NoRow
           THEN Continue(i, [locals EXCEPT !.step = "Resolving-Price",
                                           !.client = existing_client])
           ELSE Continue(i, [locals EXCEPT !.missed = TRUE])
        /\ UNCHANGED tables

\* existing_client = db.query(Client).filter(...).first()
LookupClient(i) ==
    LET locals == invocations[i]
        existing_client ==
            First({c \in clients :
                      c.contact_number = locals.order_data.client_contact})
    IN  /\ locals.step = "Reconciling-Client"
        /\ ~locals.missed
        /\ IF existing_client # NoRow
           THEN Continue(i, [locals EXCEPT !.step = "Resolving-Price",
                                           !.client = existing_client])
           ELSE Continue(i, [locals EXCEPT !.missed = TRUE])
        /\ UNCHANGED tables

\* An insert under a uniqueness constraint on contact_number: the commit
\* of a second row with the contact number raises, which the router turns
\* into a 500
InsertClient_unique(i) ==
    LET locals == invocations[i]
        db_client == new_client(locals.order_data.client_name,
                                locals.order_data.client_contact,
                                locals.order_data.client_address)
    IN  /\ locals.step = "Reconciling-Client"
        /\ locals.missed
        /\ IF \E c \in clients : c.contact_number = db_client.contact_number
           THEN /\ Answer(i, locals, "Failed",
                          [op |-> "create_integrated_order", status |-> 500,
                           detail |-> <<"Internal server error:",
                                        "IntegrityError">>])
                /\ UNCHANGED tables
           ELSE /\ clients' = clients \cup {db_client}
                /\ nextId' = [nextId EXCEPT !.clients = @ + 1]
                /\ Continue(i, [locals EXCEPT !.step = "Resolving-Price",
                                              !.client = db_client])
                /\ UNCHANGED <<categories, prices, orders>>

\* client_crud.create_client(...): db.add, db.commit
InsertClient(i) ==
    LET locals == invocations[i]
        db_client == new_client(locals.order_data.client_name,
                                locals.order_data.client_contact,
                                locals.order_data.client_address)
    IN  /\ locals.step = "Reconciling-Client"
        /\ locals.missed
        /\ clients' = clients \cup {db_client}
        /\ nextId' = [nextId EXCEPT !.clients = @ + 1]
        /\ Continue(i, [locals EXCEPT !.step = "Resolving-Price",
                                      !.client = db_client])
        /\ UNCHANGED <<categories, prices, orders>>

\* A price resolution that, failing, deleted the client the invocation had
\* inserted
ResolvePrice_rollback(i) ==
    LET locals == invocations[i]
        o == locals.order_data
        resolved == get_price_for_order(o.category_id, o.type_name, o.weight,
                                        o.custom_amount)
    IN  /\ locals.step = "Resolving-Price"
        /\ IF resolved.raised = "ValueError"
           THEN /\ Fail(i, resolved.detail)
                /\ clients' = IF locals.missed THEN clients \ {locals.client}
                                               ELSE clients
                /\ UNCHANGED <<categories, prices, orders, nextId>>
           ELSE /\ Continue(i, [locals EXCEPT !.step = "Persisting-Order",
                                              !.resolved = resolved])
                /\ UNCHANGED tables

\* price_obj, total_amount = get_price_for_order(...)
ResolvePrice(i) ==
    LET locals == invocations[i]
        o == locals.order_data
        resolved == get_price_for_order(o.category_id, o.type_name, o.weight,
                                        o.custom_amount)
    IN  /\ locals.step = "Resolving-Price"
        /\ IF resolved.raised = "ValueError"
           THEN Fail(i, resolved.detail)
           ELSE Continue(i, [locals EXCEPT !.step = "Persisting-Order",
                                           !.resolved = resolved])
        /\ UNCHANGED tables

\* order = create_order(...); return IntegratedOrderResponse(...)
PersistOrder(i) ==
    LET locals == invocations[i]
        o == locals.order_data
        order == new_order(locals.client.id, o.category_id, o.status,
                           locals.resolved.amount, o.notes)
    IN  /\ locals.step = "Persisting-Order"
        /\ orders' = orders \cup {order}
        /\ nextId' = [nextId EXCEPT !.orders = @ + 1]
        /\ Answer(i, [locals EXCEPT !.order = order], "Done",
                  [op |-> "create_integrated_order", status |-> 201,
                   body |-> IntegratedOrderResponse(
                                order, locals.client, locals.category, o,
                                locals.resolved.price)])
        /\ UNCHANGED <<categories, clients, prices>>

\* the exceptions of the database driver that a commit can raise
DatabaseErrors == {"OperationalError"}

\* A failure that left the order stored
PersistOrderRaises_stored(i) ==
    LET locals == invocations[i]
        o == locals.order_data
        order == new_order(locals.client.id, o.category_id, o.status,
                           locals.resolved.amount, o.notes)
    IN  /\ locals.step = "Persisting-Order"
        /\ orders' = orders \cup {order}
        /\ nextId' = [nextId EXCEPT !.orders = @ + 1]
        /\ \E e \in DatabaseErrors :
               Answer(i, locals, "Failed",
                      [op |-> "create_integrated_order", status |-> 500,
                       detail |-> <<"Internal server error:", e>>])
        /\ UNCHANGED <<categories, clients, prices>>

\* db.commit() in create_order raises: the session's insert is not stored,
\* and the router's except Exception answers 500 with str(e)
PersistOrderRaises(i) ==
    LET locals == invocations[i] IN
    /\ locals.step = "Persisting-Order"
    /\ \E e \in DatabaseErrors :
           Answer(i, locals, "Failed",
                  [op |-> "create_integrated_order", status |-> 500,
                   detail |-> <<"Internal server error:", e>>])
    /\ UNCHANGED tables

NextConcurrent ==
    \E i \in Invocations :
        \/ \E o \in ConcurrentOrderCreates : Receive(i, o)
        \/ ValidateCategory(i)
        \/ LookupClient(i)
        \/ InsertClient(i)
        \/ ResolvePrice(i)
        \/ PersistOrder(i)
        \/ PersistOrderRaises(i)

SpecConcurrent == InitConcurrent /\ [][NextConcurrent]_vars

\* the statements of invocation i after the request was received
RunInvocation(i) ==
    \/ ValidateCategory(i)
    \/ LookupClient(i)
    \/ InsertClient(i)
    \/ ResolvePrice(i)
    \/ PersistOrder(i)
    \/ PersistOrderRaises(i)

\* every worker thread that holds a request is scheduled again and again
SpecConcurrentFair ==
    SpecConcurrent /\ \A i \in Invocations : WF_vars(RunInvocation(i))

-----------------------------------------------------------------------------
(* Claims about POST /orders/integrated step by step (SpecConcurrent) *)

\* invocation i missed its client lookup and went on past the insert
InsertedAfterMiss(i) ==
    /\ invocations[i].step \notin {"Idle", "Validating-Category",
                                   "Reconciling-Client"}
    /\ invocations[i].missed

\* C13: two integrated-order invocations running at the same time for one
\* contact number that no client has can both miss the lookup and both
\* insert: whenever both have missed and gone on, each holds a Client row of
\* its own with that contact number, so the store holds two such rows;
\* nothing stops the second insert.
C13_BothMissBothInsert ==
    \A i \in Invocations : \A j \in Invocations \ {i} :
        (/\ InsertedAfterMiss(i)
         /\ InsertedAfterMiss(j)
         /\ invocations[i].order_data.client_contact =
                invocations[j].order_data.client_contact) =>
            /\ invocations[i].client \in clients
            /\ invocations[j].client \in clients
            /\ invocations[i].client.id # invocations[j].client.id
            /\ invocations[i].client.contact_number =
                   invocations[j].client.contact_number

\* C13 witness: both invocations missed the lookup for the same contact
\* number and inserted, and the store holds two clients with it
C13_Witness ==
    /\ InsertedAfterMiss(1)
    /\ InsertedAfterMiss(2)
    /\ invocations[1].order_data.client_contact =
           invocations[2].order_data.client_contact
    /\ Cardinality(WithContact(clients,
                               invocations[1].order_data.client_contact)) = 2

\* the moves of one invocation from step to step
StepOrder ==
    {<<"Idle", "Validating-Category">>,
     <<"Validating-Category", "Reconciling-Client">>,
     <<"Validating-Category", "Failed">>,
     <<"Reconciling-Client", "Reconciling-Client">>,
     <<"Reconciling-Client", "Resolving-Price">>,
     <<"Resolving-Price", "Persisting-Order">>,
     <<"Resolving-Price", "Failed">>,
     <<"Persisting-Order", "Done">>,
     <<"Persisting-Order", "Failed">>}

WorkflowMessages(o) ==
    {<<"Category with ID", o.category_id, "not found">>,
     <<"custom_amount is required for custom type">>,
     <<"No price found for type", o.type_name, "with weight", o.weight,
       "in category", o.category_id>>}

\* C19: POST /orders/integrated reports every failure of the composite
\* workflow and swallows none: an invocation that stops at the category
\* check, at a missing custom_amount or at an unmatched price ends Failed
\* with a 400 carrying that error's message; one stopped by any other
\* exception ends with a 500 whose message includes the cause; the answer of
\* an invocation that ends is the response sent; and a 201 is answered only
\* in the step that stores the Order, with that order's id.
C19_FailuresReported ==
    [][\A i \in Invocations :
          LET before == invocations[i]
              after == invocations'[i]
              o == before.order_data
              answer == after.response
          IN  after # before =>
              /\ after.step \in {"Failed", "Done"} <=> answer # NoResponse
              /\ answer # NoResponse => response' = answer
              /\ (before.step = "Validating-Category"
                  /\ get_category(o.category_id) = NoRow) =>
                     /\ answer # NoResponse
                     /\ answer.status = 400
                     /\ answer.detail =
                            <<"Category with ID", o.category_id, "not found">>
              /\ (before.step = "Resolving-Price" /\ IsCustomType(o.type_name)
                  /\ o.custom_amount = None) =>
                     /\ answer # NoResponse
                     /\ answer.status = 400
                     /\ answer.detail =
                            <<"custom_amount is required for custom type">>
              /\ (before.step = "Resolving-Price" /\ ~IsCustomType(o.type_name)
                  /\ \A p \in prices :
                         ~(p.category_id = o.category_id /\ InRange(p, o.weight))) =>
                     /\ answer # NoResponse
                     /\ answer.status = 400
                     /\ answer.detail =
                            <<"No price found for type", o.type_name,
                              "with weight", o.weight,
                              "in category", o.category_id>>
              /\ after.step = "Failed" =>
                     /\ answer.status \in {400, 500}
                     /\ answer.status = 400 =>
                            /\ before.step \in {"Validating-Category",
                                                "Resolving-Price"}
                            /\ answer.detail \in WorkflowMessages(o)
                     /\ answer.status = 500 =>
                            /\ Len(answer.detail) = 2
                            /\ answer.detail[1] = "Internal server error:"
                            /\ answer.detail[2] \in DatabaseErrors
                     /\ UNCHANGED orders
              /\ (answer # NoResponse /\ answer.status = 201) =>
                     /\ after.step = "Done"
                     /\ after.order \in orders' \ orders
                     /\ answer.body.order_id = after.order.id]_vars

\* C19 witness: one invocation was answered 400 with the message of a
\* missing custom_amount, the other 500 with the cause of a failed commit,
\* and no order is stored
C19_Witness ==
    \E i \in Invocations : \E j \in Invocations :
        /\ invocations[i].step = "Failed"
        /\ invocations[i].response.status = 400
        /\ invocations[i].response.detail =
               <<"custom_amount is required for custom type">>
        /\ invocations[j].step = "Failed"
        /\ invocations[j].response.status = 500
        /\ orders = {}

Started(i) == invocations[i].step # "Idle"

Ended(i) == invocations[i].step \in {"Done", "Failed"}

\* how far an invocation has come: the statements it has executed
Progress(locals) ==
    CASE locals.step = "Idle" -> 0
      [] locals.step = "Validating-Category" -> 1
      [] locals.step = "Reconciling-Client" -> IF locals.missed THEN 3 ELSE 2
      [] locals.step = "Resolving-Price" -> 4
      [] locals.step = "Persisting-Order" -> 5
      [] OTHER -> 6

\* C21: under fair scheduling every started integrated-order invocation
\* eventually reaches Done or Failed, also while another invocation runs;
\* no step is retried (every step an invocation takes brings it further)
\* and no invocation waits on another (a started invocation that has not
\* ended can always take its next step, whatever the other is doing).
C21_EveryInvocationEnds ==
    /\ \A i \in Invocations : Started(i) ~> Ended(i)
    /\ [](\A i \in Invocations :
              (Started(i) /\ ~Ended(i)) => ENABLED RunInvocation(i))
    /\ [][\A i \in Invocations :
              invocations'[i] # invocations[i] =>
                  Progress(invocations'[i]) > Progress(invocations[i])]_vars

\* C21 witness: both invocations missed the lookup for one contact number,
\* so they ran interleaved, and both have ended
C21_Witness ==
    /\ Ended(1)
    /\ Ended(2)
    /\ invocations[1].missed
    /\ invocations[2].missed
    /\ invocations[1].order_data.client_contact =
           invocations[2].order_data.client_contact

\* the rows a table gained in the step
Inserted(before, after) == after \ before

-----------------------------------------------------------------------------
(* Claims about the persisted Order (Spec) *)

-----------------------------------------------------------------------------
(* Further claims about the Price Resolver (SpecResolver) *)

\* the row covers the weight: weight_min <= weight <= weight_max, a row
\* whose type contains 'custom' covering any weight up to its weight_max
Covers(p, weight) ==
    /\ weight <= p.weight_max
    /\ \/ Contains(Lower(p.type), custom)
       \/ (p.weight_min # None /\ p.weight_min <= weight)

\* the rows of the category with exactly that type that cover the weight
ExactRows(category_id, type_name, weight) ==
    {p \in prices : /\ p.category_id = category_id
                    /\ p.type = type_name
                    /\ Covers(p, weight)}

\* the rows of the category whose type contains type_name, letter case
\* aside, that cover the weight
SubstringRows(category_id, type_name, weight) ==
    {p \in prices : /\ p.category_id = category_id
                    /\ Contains(Lower(p.type), Lower(type_name))
                    /\ Covers(p, weight)}

\* C16: for a non-custom type_name, get_price_for_order returns a row of
\* the category with exactly that type that covers the weight whenever one
\* exists; only when none exists it returns a row of the category whose
\* type contains type_name as a case-insensitive substring and that covers
\* the weight; it fails with 'No price found for type ...' exactly when
\* neither search has a matching row.
C16_ExactThenSubstring ==
    (response.op = "get_price_for_order"
     /\ ~IsCustomType(request.args.type_name)) =>
        LET a == request.args
            exact == ExactRows(a.category_id, a.type_name, a.weight)
            substring == SubstringRows(a.category_id, a.type_name, a.weight)
            result == response.result
        IN  /\ exact # {} => (result.raised = "" /\ result.price \in exact)
            /\ (exact = {} /\ substring # {}) =>
                   (result.raised = "" /\ result.price \in substring)
            /\ (exact = {} /\ substring = {}) =>
                   /\ result.raised = "ValueError"
                   /\ result.detail = <<"No price found for type", a.type_name,
                                        "with weight", a.weight, "in category",
                                        a.category_id>>

\* C20: get_price_for_order changes nothing: for every input, whether it
\* returns a price or fails, the Category, Client, Price and Order tables
\* (and the ids to come) are the same after the call as before it.
C20_ResolverChangesNothing ==
    [][response'.op = "get_price_for_order" =>
           /\ UNCHANGED <<categories, clients, prices, orders, nextId>>
           /\ response'.result.raised \in {"", "ValueError"}]_vars

\* C20 witness: the resolver was called on a table with rows and failed,
\* having matched none
C20_Witness ==
    /\ Resolved
    /\ response.result.raised = "ValueError"
    /\ ~IsCustomType(request.args.type_name)
    /\ \E p \in prices : p.category_id = request.args.category_id

-----------------------------------------------------------------------------
(* Orders: schemas, crud and router *)

\* crud.client.get_client
get_client(client_id) ==
    First({c \in clients : c.id = client_id})

\* crud.order.get_order
get_order(order_id) ==
    First({o \in orders : o.id = order_id})

\* schemas.order.OrderBase: total_amount ge=0
OrderCreateErrors(order) ==
    Invalid(order.total_amount # None /\ order.total_amount < 0,
            "total_amount", order.total_amount)

\* schemas.order.OrderUpdate
OrderUpdateErrors(order) ==
    Invalid(Field(order, "total_amount") # None /\ order.total_amount < 0,
            "total_amount", Field(order, "total_amount"))

\* POST /orders
create_order(order) ==
    LET op == "create_order"
        db_order == new_order(order.client_id, order.category_id, order.status,
                              order.total_amount, order.notes)
    IN  IF OrderCreateErrors(order) # {}
        THEN RequestValidationError(op, OrderCreateErrors(order))
        ELSE IF get_client(order.client_id) = NoRow
        THEN HTTPException(op, 400, <<"Client not found">>)
        ELSE IF get_category(order.category_id) = NoRow
        THEN HTTPException(op, 400, <<"Category not found">>)
        ELSE /\ nextId.orders <= MaxOrderId
             /\ orders' = orders \cup {db_order}
             /\ nextId' = [nextId EXCEPT !.orders = @ + 1]
             /\ response' = [op |-> op, status |-> 201, body |-> db_order]
             /\ UNCHANGED <<categories, clients, prices>>

\* An update that wrote the payload's defaults too: total_amount is set to
\* NULL when it was not sent
crud_update_order_resetting(op, db_order, payload) ==
    LET updated == [f \in DOMAIN db_order |->
                       IF Sent(payload, f) THEN payload[f]
                       ELSE IF f = "total_amount" THEN None
                       ELSE db_order[f]]
    IN  IF updated.client_id = None \/ updated.category_id = None
        THEN InternalServerError(op, "IntegrityError")
        ELSE /\ orders' = (orders \ {db_order}) \cup {updated}
             /\ response' = [op |-> op, status |-> 200, body |-> updated]
             /\ UNCHANGED <<categories, clients, prices, nextId>>

\* crud.order.update_order: setattr for every field sent, then commit;
\* client_id and category_id are nullable=False
crud_update_order(op, db_order, payload) ==
    LET updated == [f \in DOMAIN db_order |->
                       IF Sent(payload, f) THEN payload[f] ELSE db_order[f]]
    IN  IF updated.client_id = None \/ updated.category_id = None
        THEN InternalServerError(op, "IntegrityError")
        ELSE /\ orders' = (orders \ {db_order}) \cup {updated}
             /\ response' = [op |-> op, status |-> 200, body |-> updated]
             /\ UNCHANGED <<categories, clients, prices, nextId>>

\* A PUT /orders/{order_id} that did not look the client up
update_order_client_unchecked(order_id, order) ==
    LET op == "update_order"
        db_order == get_order(order_id)
        category_id == Field(order, "category_id")
    IN  IF OrderUpdateErrors(order) # {}
        THEN RequestValidationError(op, OrderUpdateErrors(order))
        ELSE IF db_order = NoRow
        THEN HTTPException(op, 404, <<"Order not found">>)
        ELSE IF category_id # None /\ get_category(category_id) = NoRow
        THEN HTTPException(op, 400, <<"Category not found">>)
        ELSE crud_update_order(op, db_order, order)

\* PUT /orders/{order_id}
update_order(order_id, order) ==
    LET op == "update_order"
        db_order == get_order(order_id)
        client_id == Field(order, "client_id")
        category_id == Field(order, "category_id")
    IN  IF OrderUpdateErrors(order) # {}
        THEN RequestValidationError(op, OrderUpdateErrors(order))
        ELSE IF db_order = NoRow
        THEN HTTPException(op, 404, <<"Order not found">>)
        ELSE IF client_id # None /\ get_client(client_id) = NoRow
        THEN HTTPException(op, 400, <<"Client not found">>)
        ELSE IF category_id # None /\ get_category(category_id) = NoRow
        THEN HTTPException(op, 400, <<"Category not found">>)
        ELSE crud_update_order(op, db_order, order)

-----------------------------------------------------------------------------
(* The endpoints that write a reference: POST and PUT /orders, POST and    *)
(* PUT /prices and POST /orders/integrated, next to POST /categories and   *)
(* POST /clients, on a store that holds the category 'Wash&Fold' and the   *)
(* client Jane. Nothing deletes a category or a client.                    *)

Jane ==
    [id |-> 1, name |-> "Jane", contact_number |-> "09171234567",
     address |-> "123 St"]

OrderCreates ==
    {[client_id |-> c, category_id |-> k, status |-> "pending",
      total_amount |-> 100, notes |-> NotSent] : c \in {1, 2}, k \in {1, 2}}

\* the fields sent; None is an explicit null
OrderUpdates ==
    {[client_id |-> c] : c \in {1, 2, None}}
    \cup {[category_id |-> k] : k \in {1, 2, None}}
    \cup {[client_id |-> 2, category_id |-> 2], [status |-> "completed"]}

OrderIds == 1..MaxOrderId

ReferencePriceCreates ==
    {[type |-> Regular, weight_min |-> Kg(1), weight_max |-> Kg(5),
      amount |-> 100, category_id |-> k] : k \in {1, 2}}

ReferencePriceUpdates ==
    {[category_id |-> k] : k \in {1, 2, None}} \cup {[amount |-> 100]}

ReferenceOrderCreates ==
    {o \in IntegratedOrderCreates :
        o.client_name = "Jane" /\ o.type_name = Regular /\ o.weight = Kg(3)}

InitReferences ==
    /\ categories = {WashAndFold}
    /\ clients = {Jane}
    /\ prices = {}
    /\ orders = {}
    /\ nextId = [categories |-> 2, clients |-> 2, prices |-> 1, orders |-> 1]
    /\ request = NoRequest
    /\ response = NoResponse
    /\ previous = NoPrevious
    /\ invocations = NoInvocations

\* the call is recorded
Called(op, args) ==
    /\ request' = [op |-> op, args |-> args]
    /\ UNCHANGED <<previous, invocations>>

PostOrder == \E o \in OrderCreates : create_order(o) /\ Called("create_order", o)

PutOrder ==
    \E i \in OrderIds, u \in OrderUpdates :
        update_order(i, u) /\ Called("update_order", [id |-> i, body |-> u])

PostPrice ==
    \E p \in ReferencePriceCreates : create_price(p) /\ Called("create_price", p)

PutPrice ==
    \E i \in PriceIds, u \in ReferencePriceUpdates :
        update_price(i, u) /\ Called("update_price", [id |-> i, body |-> u])

PostIntegratedOrder ==
    \E o \in ReferenceOrderCreates :
        create_integrated_order(o) /\ Called("create_integrated_order", o)

PostCategory ==
    /\ create_category([name |-> "Dry Clean"])
    /\ Called("create_category", [name |-> "Dry Clean"])

PostClient ==
    \E c \in {c \in ClientCreates : c.name = "Joan"} :
        create_client(c) /\ Called("create_client", c)

NextReferences ==
    \/ PostOrder
    \/ PutOrder
    \/ PostPrice
    \/ PutPrice
    \/ PostIntegratedOrder
    \/ PostCategory
    \/ PostClient

SpecReferences == InitReferences /\ [][NextReferences]_vars

-----------------------------------------------------------------------------
(* Claims about references (SpecReferences) *)

ClientIds == {c.id : c \in clients}
CategoryIds == {c.id : c \in categories}

\* the call names, in a field it sends with a value, a client or a category
\* that does not exist
NamesMissingRow(call) ==
    CASE call.op = "create_order" ->
             \/ call.args.client_id \notin ClientIds
             \/ call.args.category_id \notin CategoryIds
      [] call.op = "update_order" ->
             \/ Field(call.args.body, "client_id") \notin ClientIds \cup {None}
             \/ Field(call.args.body, "category_id") \notin CategoryIds \cup {None}
      [] call.op = "create_price" ->
             call.args.category_id \notin CategoryIds
      [] call.op = "update_price" ->
             Field(call.args.body, "category_id") \notin CategoryIds \cup {None}
      [] OTHER -> FALSE

\* C17: POST /orders and PUT /orders/{id} with a client_id or category_id
\* that names no existing row, and POST /prices and PUT /prices/{id} with a
\* category_id that names no existing category, are answered with an error
\* and leave the Order and Price tables unchanged; with no client or
\* category deleted, every Order and every Price references existing rows.
C17_ReferencesChecked ==
    /\ [](/\ \A o \in orders : /\ o.client_id \in ClientIds
                               /\ o.category_id \in CategoryIds
          /\ \A p \in prices : p.category_id \in CategoryIds)
    /\ [][NamesMissingRow(request') =>
              /\ response'.status >= 400
              /\ orders' = orders
              /\ prices' = prices]_vars

\* C17 witness: an order update naming the missing client 2 was answered
\* 400 'Client not found', the stored order referencing client 1
C17_Witness ==
    /\ request.op = "update_order"
    /\ Field(request.args.body, "client_id") = 2
    /\ 2 \notin ClientIds
    /\ response.status = 400
    /\ response.detail = <<"Client not found">>
    /\ \E o \in orders : o.id = request.args.id /\ o.client_id = 1

-----------------------------------------------------------------------------
(* POST and PUT /prices with updates of one field: weight_max alone,       *)
(* weight_min alone (a value or an explicit null), type alone.             *)

PriceRangeCreates ==
    {[type |-> t, weight_min |-> w[1], weight_max |-> w[2], amount |-> 100,
      category_id |-> 1] :
        t \in {custom, Reg}, w \in {<<None, Kg(3)>>, <<Kg(2), Kg(3)>>}}

\* the fields sent; None is an explicit null
PriceRangeUpdates ==
    {[weight_max |-> w] : w \in {Kg(1), Kg(4)}}
    \cup {[weight_min |-> w] : w \in {Kg(1), Kg(4), None}}
    \cup {[type |-> t] : t \in {custom, Reg}}

InitPriceRange ==
    /\ categories = TwoCategories
    /\ clients = {}
    /\ orders = {}
    /\ prices = {}
    /\ nextId = [categories |-> 3, clients |-> 1, prices |-> 1, orders |-> 1]
    /\ request = NoRequest
    /\ response = NoResponse
    /\ previous = NoPrevious
    /\ invocations = NoInvocations

CreatePriceRange ==
    \E p \in PriceRangeCreates : create_price(p) /\ Called("create_price", p)

UpdatePriceRange ==
    \E i \in PriceIds, u \in PriceRangeUpdates :
        update_price(i, u) /\ Called("update_price", [id |-> i, body |-> u])

NextPriceRange == CreatePriceRange \/ UpdatePriceRange

SpecPriceRange == InitPriceRange /\ [][NextPriceRange]_vars

\* C18: after any sequence of price create and update operations, every
\* stored Price row that has a weight_min has weight_max > weight_min, and
\* every stored Price row whose type is not 'custom' (case-insensitive) has
\* a weight_min.
C18_WeightBoundsKept ==
    \A p \in prices :
        /\ p.weight_min # None => p.weight_max > p.weight_min
        /\ ~IsCustomType(p.type) => p.weight_min # None

-----------------------------------------------------------------------------
(* POST /categories and PUT /categories/{id} step by step: the router's    *)
(* queries and the crud function's commit are separate steps on the store, *)
(* and two invocations run at the same time, each in a worker thread with  *)
(* a session of its own. The store starts with none, one or two            *)
(* categories; nothing deletes one.                                        *)

CategoryNames == {"Wash&Fold", "Dry Clean", "Press"}

\* a CategoryUpdate with no field set
NothingSent == [f \in {} |-> None]

\* the fields sent
CategoryUpdates == {[name |-> n] : n \in CategoryNames} \cup {NothingSent}

CategoryCalls ==
    {[op |-> "create_category", id |-> None, body |-> [name |-> n]] :
        n \in CategoryNames}
    \cup {[op |-> "update_category", id |-> i, body |-> u] :
             i \in 1..(MaxCategoryId + 1), u \in CategoryUpdates}

InitCategory ==
    /\ categories \in {{}, {WashAndFold}, TwoCategories}
    /\ clients = {}
    /\ prices = {}
    /\ orders = {}
    /\ nextId = [categories |-> Cardinality(categories) + 1, clients |-> 1,
                 prices |-> 1, orders |-> 1]
    /\ request = NoRequest
    /\ response = NoResponse
    /\ previous = NoPrevious
    /\ invocations = NoInvocations

\* the endpoint is entered
ReceiveCategoryCall(i, call) ==
    /\ invocations[i].step = "Idle"
    /\ Continue(i, [step |-> IF call.op = "create_category"
                            THEN "Checking-Name" ELSE "Reading-Category",
                    call |-> call, db_category |-> NoRow,
                    response |-> NoResponse])
    /\ UNCHANGED tables

\* update_category: db_category = crud_category.get_category(...)
ReadCategory(i) ==
    LET locals == invocations[i]
        db_category == get_category(locals.call.id)
    IN  /\ locals.step = "Reading-Category"
        /\ IF db_category = NoRow
           THEN Answer(i, locals, "Failed",
                       [op |-> locals.call.op, status |-> 404,
                        detail |-> <<"Category not found">>])
           ELSE Continue(i, [locals EXCEPT !.step = "Checking-Name",
                                           !.db_category = db_category])
        /\ UNCHANGED tables

\* crud_category.get_category_by_name(...) and the raise of 400; an update
\* looks only when a name was sent that differs from the row's as read
CheckCategoryName(i) ==
    LET locals == invocations[i]
        call == locals.call
        looks == \/ call.op = "create_category"
                 \/ (Sent(call.body, "name")
                     /\ call.body.name # locals.db_category.name)
    IN  /\ locals.step = "Checking-Name"
        /\ IF looks /\ get_category_by_name(call.body.name) # NoRow
           THEN Answer(i, locals, "Failed",
                       [op |-> call.op, status |-> 400,
                        detail |-> <<"Category name already exists">>])
           ELSE Continue(i, [locals EXCEPT !.step = "Committing"])
        /\ UNCHANGED tables

\* A commit on a table whose name column had no unique constraint
CommitCategory_unconstrained(i) ==
    LET locals == invocations[i]
        call == locals.call
        db_category == IF call.op = "create_category"
                       THEN [id |-> nextId.categories, name |-> call.body.name]
                       ELSE get_category(call.id)
        updated == [f \in DOMAIN db_category |->
                       IF Sent(call.body, f) THEN call.body[f]
                       ELSE db_category[f]]
    IN  /\ locals.step = "Committing"
        /\ IF call.op = "create_category"
           THEN /\ nextId.categories <= MaxCategoryId + 1
                /\ categories' = categories \cup {db_category}
                /\ nextId' = [nextId EXCEPT !.categories = @ + 1]
                /\ Answer(i, locals, "Done",
                          [op |-> call.op, status |-> 201,
                           body |-> db_category])
           ELSE /\ categories' = (categories \ {db_category}) \cup {updated}
                /\ nextId' = nextId
                /\ Answer(i, locals, "Done",
                          [op |-> call.op, status |-> 200, body |-> updated])
        /\ UNCHANGED <<clients, prices, orders>>

\* crud.category.create_category: db.add, db.commit; crud.category
\* .update_category: setattr for every field sent, db.commit. name is
\* unique=True: the commit of a name that another row holds raises
\* IntegrityError, which no handler catches
CommitCategory(i) ==
    LET locals == invocations[i]
        call == locals.call
        db_category == IF call.op = "create_category"
                       THEN [id |-> nextId.categories, name |-> call.body.name]
                       ELSE get_category(call.id)
        updated == [f \in DOMAIN db_category |->
                       IF Sent(call.body, f) THEN call.body[f]
                       ELSE db_category[f]]
    IN  /\ locals.step = "Committing"
        /\ IF \E c \in categories : c.name = updated.name /\ c.id # updated.id
           THEN /\ Answer(i, locals, "Failed",
                          [op |-> call.op, status |-> 500,
                           detail |-> <<"IntegrityError">>])
                /\ UNCHANGED tables
           ELSE IF call.op = "create_category"
           THEN /\ nextId.categories <= MaxCategoryId + 1
                /\ categories' = categories \cup {db_category}
                /\ nextId' = [nextId EXCEPT !.categories = @ + 1]
                /\ Answer(i, locals, "Done",
                          [op |-> call.op, status |-> 201,
                           body |-> db_category])
                /\ UNCHANGED <<clients, prices, orders>>
           ELSE /\ categories' = (categories \ {db_category}) \cup {updated}
                /\ Answer(i, locals, "Done",
                          [op |-> call.op, status |-> 200, body |-> updated])
                /\ UNCHANGED <<clients, prices, orders, nextId>>

NextCategory ==
    \E i \in Invocations :
        \/ \E call \in CategoryCalls : ReceiveCategoryCall(i, call)
        \/ ReadCategory(i)
        \/ CheckCategoryName(i)
        \/ CommitCategory(i)

SpecCategory == InitCategory /\ [][NextCategory]_vars

-----------------------------------------------------------------------------
(* Claims about category names (SpecCategory) *)

\* a category other than category_id holds the name
HeldByAnother(name, category_id) ==
    \E c \in categories : c.name = name /\ c.id # category_id

\* C22: after any sequence of category creates and updates, sequential or
\* interleaved, no two Category rows share a name; a PUT whose name check
\* finds the name held by a different category is answered 400 and changes
\* nothing; a PUT that repeats the category's own current name succeeds and
\* leaves the table as it is; and a commit of a name that another row took
\* after the check is stopped by the unique constraint and changes nothing.
C22_CategoryNamesUnique ==
    /\ [](\A c \in categories : \A d \in categories :
              c.name = d.name => c.id = d.id)
    /\ [][\A i \in Invocations :
              LET before == invocations[i]
                  after == invocations'[i]
              IN  (after # before /\ before.step # "Idle"
                   /\ before.call.op = "update_category"
                   /\ Sent(before.call.body, "name")) =>
                      LET name == before.call.body.name
                          id == before.call.id
                      IN  /\ (before.step = "Checking-Name"
                              /\ HeldByAnother(name, id)) =>
                                 /\ after.step = "Failed"
                                 /\ after.response.status = 400
                                 /\ response' = after.response
                                 /\ UNCHANGED tables
                          /\ (before.step = "Committing"
                              /\ get_category(id).name = name) =>
                                 /\ after.step = "Done"
                                 /\ after.response.status = 200
                                 /\ after.response.body = get_category(id)
                                 /\ UNCHANGED tables
                          /\ (before.step = "Committing"
                              /\ HeldByAnother(name, id)) =>
                                 /\ after.step = "Failed"
                                 /\ after.response.status = 500
                                 /\ UNCHANGED tables]_vars

\* C22 witness: two invocations with one name both passed the name check;
\* one stored the name and the other was stopped at its commit
C22_Witness ==
    \E i \in Invocations : \E j \in Invocations :
        /\ invocations[i].step = "Done"
        /\ invocations[j].step = "Failed"
        /\ invocations[j].call.op = "update_category"
        /\ invocations[j].response.status = 500
        /\ invocations[i].call.body = invocations[j].call.body
        /\ Cardinality(categories) = 2

-----------------------------------------------------------------------------
(* PUT /clients/{client_id} *)

\* crud.client.update_client: setattr for every field sent, then commit
crud_update_client(op, db_client, payload) ==
    LET updated == [f \in DOMAIN db_client |->
                       IF Sent(payload, f) THEN payload[f] ELSE db_client[f]]
    IN  /\ clients' = (clients \ {db_client}) \cup {updated}
        /\ response' = [op |-> op, status |-> 200, body |-> updated]
        /\ UNCHANGED <<categories, prices, orders, nextId>>

\* PUT /clients/{client_id}; the payloads are ones ClientUpdate accepts
update_client(client_id, client) ==
    LET op == "update_client"
        db_client == get_client(client_id)
    IN  IF db_client = NoRow
        THEN HTTPException(op, 404, <<"Client not found">>)
        ELSE crud_update_client(op, db_client, client)

-----------------------------------------------------------------------------
(* POST /orders/integrated step by step, as in SpecConcurrent, while       *)
(* PUT /clients/{client_id} changes the contact number of a client.        *)

ContactUpdates == {[contact_number |-> c] : c \in Contacts}

ClientIdsSent == 1..MaxClientId

\* one PUT /clients/{client_id}, between any two steps of the invocations
PutClientContact ==
    \E id \in ClientIdsSent, u \in ContactUpdates :
        /\ update_client(id, u)
        /\ UNCHANGED <<request, previous, invocations>>

NextConcurrentClients == NextConcurrent \/ PutClientContact

SpecConcurrentClients == InitConcurrent /\ [][NextConcurrentClients]_vars

\* C23: every Order inserted by create_integrated_order references a Client
\* whose contact_number, at the moment the order is persisted, equals the
\* request's client_contact, also under interleaving with other
\* integrated-order invocations and with client updates.
C23_OrderClientHasContact ==
    [][\A i \in Invocations :
          (invocations[i].step = "Persisting-Order"
           /\ invocations'[i].step = "Done") =>
              \E c \in clients' :
                  /\ c.id = invocations'[i].order.client_id
                  /\ c.contact_number =
                         invocations[i].order_data.client_contact]_vars

-----------------------------------------------------------------------------
(* POST /orders/integrated step by step, as in SpecConcurrent, while       *)
(* DELETE /categories/{category_id} runs. The store holds 'Wash&Fold',     *)
(* which no price references, and 'Dry Clean' with one Regular price. The  *)
(* store enforces the foreign keys that models.order declares.             *)

\* rows that reference the category
ReferencesCategory(category_id) ==
    {r \in orders \cup prices : r.category_id = category_id}

\* DELETE /categories/{category_id}: db.delete, db.commit. The commit is
\* refused while an order or a price references the row
delete_category(category_id) ==
    LET op == "delete_category"
        db_category == get_category(category_id)
    IN  IF db_category = NoRow
        THEN HTTPException(op, 404, <<"Category not found">>)
        ELSE IF ReferencesCategory(category_id) # {}
        THEN InternalServerError(op, "IntegrityError")
        ELSE /\ categories' = categories \ {db_category}
             /\ response' = [op |-> op, status |-> 204, body |-> <<>>]
             /\ UNCHANGED <<clients, prices, orders, nextId>>

DryCleanPrice ==
    [id |-> 1, type |-> Regular, weight_min |-> Kg(1), weight_max |-> Kg(5),
     amount |-> 100, category_id |-> 2]

InitConcurrentDelete ==
    /\ categories = TwoCategories
    /\ clients = {}
    /\ prices = {DryCleanPrice}
    /\ orders = {}
    /\ nextId = [categories |-> 3, clients |-> 1, prices |-> 2, orders |-> 1]
    /\ request = NoRequest
    /\ response = NoResponse
    /\ previous = NoPrevious
    /\ invocations = NoInvocations

\* An insert into a store that did not enforce the foreign keys
InsertOrder_unenforced(i) == PersistOrder(i)

\* create_order's commit on a store that enforces orders.category_id and
\* orders.client_id: the insert of a reference to no row raises
\* IntegrityError, which the router's except Exception answers with a 500
InsertOrder(i) ==
    LET locals == invocations[i] IN
    /\ locals.step = "Persisting-Order"
    /\ IF \/ get_category(locals.order_data.category_id) = NoRow
          \/ get_client(locals.client.id) = NoRow
       THEN /\ Answer(i, locals, "Failed",
                      [op |-> "create_integrated_order", status |-> 500,
                       detail |-> <<"Internal server error:",
                                    "IntegrityError">>])
            /\ UNCHANGED tables
       ELSE PersistOrder(i)

DeleteCategory ==
    \E id \in 1..MaxCategoryId :
        /\ delete_category(id)
        /\ UNCHANGED <<request, previous, invocations>>

NextConcurrentDelete ==
    \/ \E i \in Invocations :
           \/ \E o \in ConcurrentOrderCreates : Receive(i, o)
           \/ ValidateCategory(i)
           \/ LookupClient(i)
           \/ InsertClient(i)
           \/ ResolvePrice(i)
           \/ InsertOrder(i)
    \/ DeleteCategory

SpecConcurrentDelete == InitConcurrentDelete /\ [][NextConcurrentDelete]_vars

-----------------------------------------------------------------------------
(* PUT /categories/{id}, PUT /clients/{id}, PUT /orders/{id} and           *)
(* PUT /prices/{id}, one call at a time, on a store of two categories, two *)
(* clients, two prices and one order. The ids sent include ones that no    *)
(* row has; the payloads are ones the schemas accept, among them the empty *)
(* payload.                                                                *)

\* crud.category.update_category: setattr for every field sent, then commit
crud_update_category(op, db_category, payload) ==
    LET updated == [f \in DOMAIN db_category |->
                       IF Sent(payload, f) THEN payload[f]
                       ELSE db_category[f]]
    IN  /\ categories' = (categories \ {db_category}) \cup {updated}
        /\ response' = [op |-> op, status |-> 200, body |-> updated]
        /\ UNCHANGED <<clients, prices, orders, nextId>>

\* PUT /categories/{category_id}
update_category(category_id, category) ==
    LET op == "update_category"
        db_category == get_category(category_id)
    IN  IF db_category = NoRow
        THEN HTTPException(op, 404, <<"Category not found">>)
        ELSE IF /\ Sent(category, "name")
                /\ category.name # db_category.name
                /\ get_category_by_name(category.name) # NoRow
        THEN HTTPException(op, 400, <<"Category name already exists">>)
        ELSE crud_update_category(op, db_category, category)

Joan ==
    [id |-> 2, name |-> "Joan", contact_number |-> "09181234567",
     address |-> "45 Ave"]

JanesOrder ==
    [id |-> 1, client_id |-> 1, category_id |-> 1, status |-> "pending",
     total_amount |-> 100, notes |-> "fragile"]

DryCleanCustom ==
    [id |-> 2, type |-> custom, weight_min |-> None, weight_max |-> Kg(5),
     amount |-> 50, category_id |-> 2]

\* the id of a row of every table, and an id that no table has
SentIds == {1, 3}

ClientUpdates ==
    ContactUpdates
    \cup {[name |-> "Joan", address |-> "45 Ave"], NothingSent}

PutOrderUpdates ==
    {[client_id |-> c] : c \in {2, None}}
    \cup {[category_id |-> 2, status |-> "completed"],
          [total_amount |-> None], NothingSent}

PutPriceUpdates ==
    {[category_id |-> k] : k \in {2, None}}
    \cup {[amount |-> 80, weight_max |-> Kg(4)], NothingSent}

InitUpdates ==
    /\ categories = TwoCategories
    /\ clients = {Jane, Joan}
    /\ prices = {RegularPrice, DryCleanCustom}
    /\ orders = {JanesOrder}
    /\ nextId = [categories |-> 3, clients |-> 3, prices |-> 3, orders |-> 2]
    /\ request = NoRequest
    /\ response = NoResponse
    /\ previous = NoPrevious
    /\ invocations = NoInvocations

UpdateCategory ==
    \E i \in SentIds, u \in CategoryUpdates :
        update_category(i, u) /\ Called("update_category", [id |-> i, body |-> u])

UpdateClient ==
    \E i \in SentIds, u \in ClientUpdates :
        update_client(i, u) /\ Called("update_client", [id |-> i, body |-> u])

UpdateOrder ==
    \E i \in SentIds, u \in PutOrderUpdates :
        update_order(i, u) /\ Called("update_order", [id |-> i, body |-> u])

UpdateAPrice ==
    \E i \in SentIds, u \in PutPriceUpdates :
        update_price(i, u) /\ Called("update_price", [id |-> i, body |-> u])

NextUpdates == UpdateCategory \/ UpdateClient \/ UpdateOrder \/ UpdateAPrice

SpecUpdates == InitUpdates /\ [][NextUpdates]_vars

-----------------------------------------------------------------------------
(* Claims about the updates (SpecUpdates) *)

UpdateOps ==
    {"update_category", "update_client", "update_order", "update_price"}

\* the table an update is about
Updated(op, cat, cli, ord, pri) ==
    CASE op = "update_category" -> cat
      [] op = "update_client" -> cli
      [] op = "update_order" -> ord
      [] op = "update_price" -> pri

\* the row with every field of the payload written over it
Overwritten(row, body) ==
    [f \in DOMAIN row |-> IF f \in DOMAIN body THEN body[f] ELSE row[f]]

====
